---- MODULE Spec2Model ----
(***************************************************************************)
(* Model of abj2016.py: Bayesian distances from parallaxes (Astraatmadja & *)
(* Bailer-Jones 2016).  The module's functions are pure; a call is one     *)
(* action that draws its arguments and records the outcome (a value or a   *)
(* raised exception).                                                      *)
(*                                                                         *)
(* Numbers.  A float is modelled as an exact rational n/d or one of the    *)
(* IEEE specials +inf, -inf, nan.  +, -, *, / are exact on rationals and   *)
(* follow IEEE on specials (x/0 = inf, 0/0 = nan, inf*0 = nan).  np.exp    *)
(* and np.sqrt round: Exp rounds down to a power of two and underflows to  *)
(* 0 below 2^-MinExp (float64 underflows below 2^-1074), Sqrt is exact on  *)
(* rational squares and otherwise rounds down to a multiple of 1/SqrtRes.  *)
(***************************************************************************)
EXTENDS Integers, Sequences, FiniteSets

\* ------------------------------------------------------------- bounds
\* Smallest binary exponent Exp keeps before it underflows to 0.
MinExp == 6
\* Resolution of a rounded square root.
SqrtRes == 4
\* Longest sequence of sources passed to one call.
MaxLen == 2
\* Largest grid resolution passed explicitly.
MaxRes == 3

\* ------------------------------------------------------------- floats
Abs(x) == IF x < 0 THEN -x ELSE x

RECURSIVE GCD(_, _)
GCD(a, b) == IF b = 0 THEN a ELSE GCD(b, a % b)

\* The rational n/d (d # 0) in lowest terms with a positive denominator.
Fin(n, d) ==
  LET g == GCD(Abs(n), Abs(d))
      s == IF d < 0 THEN -1 ELSE 1
  IN  [k |-> "fin", n |-> s * (n \div g), d |-> s * (d \div g)]

Int2F(i) == [k |-> "fin", n |-> i, d |-> 1]
Zero == Int2F(0)
One == Int2F(1)
NaN == [k |-> "nan", n |-> 0, d |-> 1]
PInf == [k |-> "inf", n |-> 1, d |-> 1]
NInf == [k |-> "inf", n |-> -1, d |-> 1]

IsNaN(a) == a.k = "nan"
IsFin(a) == a.k = "fin"
Sign(a) == IF a.n > 0 THEN 1 ELSE IF a.n < 0 THEN -1 ELSE 0
InfOf(s) == IF s > 0 THEN PInf ELSE NInf

Neg(a) == [a EXCEPT !.n = -a.n]

Add(a, b) ==
  IF IsNaN(a) \/ IsNaN(b) THEN NaN
  ELSE IF a.k = "inf" /\ b.k = "inf" THEN (IF a.n = b.n THEN a ELSE NaN)
  ELSE IF a.k = "inf" THEN a
  ELSE IF b.k = "inf" THEN b
  ELSE LET g == GCD(a.d, b.d)
           l == (a.d \div g) * b.d
       IN  Fin(a.n * (l \div a.d) + b.n * (l \div b.d), l)

Sub(a, b) == Add(a, Neg(b))

Mul(a, b) ==
  IF IsNaN(a) \/ IsNaN(b) THEN NaN
  ELSE IF a.k = "inf" \/ b.k = "inf"
       THEN (IF Sign(a) * Sign(b) = 0 THEN NaN ELSE InfOf(Sign(a) * Sign(b)))
  ELSE LET g1 == GCD(Abs(a.n), b.d)
           g2 == GCD(Abs(b.n), a.d)
       IN  Fin((a.n \div g1) * (b.n \div g2), (a.d \div g2) * (b.d \div g1))

\* 1/a as numpy computes it on arrays and numpy scalars: 1/0 = +inf.
Recip(a) ==
  IF IsNaN(a) THEN NaN
  ELSE IF a.k = "inf" THEN Zero
  ELSE IF a.n = 0 THEN PInf
  ELSE Fin(a.d, a.n)

Div(a, b) == Mul(a, Recip(b))

\* a**2.
Sq(a) == Mul(a, a)

\* Strict order of two non-nan floats.
Less(a, b) ==
  IF a.k = "inf" THEN a.n < 0 /\ ~(b.k = "inf" /\ b.n < 0)
  ELSE IF b.k = "inf" THEN b.n > 0
  ELSE a.n * b.d < b.n * a.d

RECURSIVE ISqrtIn(_, _, _)
ISqrtIn(m, lo, hi) ==
  IF lo >= hi THEN lo
  ELSE LET mid == (lo + hi + 1) \div 2
       IN  IF mid * mid <= m THEN ISqrtIn(m, mid, hi) ELSE ISqrtIn(m, lo, mid - 1)

\* floor(sqrt(m)) of a natural number.
ISqrt(m) == ISqrtIn(m, 0, IF m < 2 THEN m ELSE IF m < 40000 THEN 200 ELSE 46340)

\* np.sqrt
Sqrt(a) ==
  IF IsNaN(a) THEN NaN
  ELSE IF a.k = "inf" THEN (IF a.n > 0 THEN PInf ELSE NaN)
  ELSE IF a.n < 0 THEN NaN
  ELSE LET r == ISqrt(a.n)
           s == ISqrt(a.d)
       IN  IF r * r = a.n /\ s * s = a.d THEN Fin(r, s)
           ELSE Fin(ISqrt((a.n * SqrtRes * SqrtRes) \div a.d), SqrtRes)

RECURSIVE Pow2(_)
Pow2(e) == IF e = 0 THEN 1 ELSE 2 * Pow2(e - 1)

\* np.exp: e^a rounded down to a power of two, 2^floor(a*log2(e)) with
\* log2(e) taken as 3/2; 0 when the exponent falls below -MinExp.
Exp(a) ==
  IF IsNaN(a) THEN NaN
  ELSE IF a.k = "inf" THEN (IF a.n > 0 THEN PInf ELSE Zero)
  ELSE LET e == (3 * a.n) \div (2 * a.d)
       IN  IF e < -MinExp THEN Zero
           ELSE IF e < 0 THEN Fin(1, Pow2(-e))
           ELSE Int2F(Pow2(e))

\* 2*np.pi, with np.pi taken as 25/8.
TwoPi == Fin(25, 4)

\* ------------------------------------------------------ numpy helpers
\* Outcome of a call: a returned value, or a raised exception.  priorEvals
\* and likEvals count the grid points on which the prior and the likelihood
\* were evaluated before the call ended.
Ok(v, pe, le) == [tag |-> "ok", exc |-> "", val |-> v, priorEvals |-> pe, likEvals |-> le]
Raise(e, pe, le) == [tag |-> "raise", exc |-> e, val |-> <<>>, priorEvals |-> pe, likEvals |-> le]

KeywordError == "ValueError: Prior keyword does not exist"
AssignError == "ValueError: boolean index assignment size mismatch"
BroadcastError == "ValueError: operands could not be broadcast together"
ZeroDivError == "ZeroDivisionError"

\* A sequence given as a function over 1..n, built once (element by element)
\* rather than re-evaluated at each access.
Vec(f) == f \o <<>>

RECURSIVE SumFrom(_, _)
SumFrom(v, i) == IF i > Len(v) THEN Zero ELSE Add(v[i], SumFrom(v, i + 1))

\* np.sum of a vector.
Sum(v) == SumFrom(v, 1)

\* Column j of a matrix (a sequence of rows).
Col(m, j) == Vec([i \in 1..Len(m) |-> m[i][j]])

\* np.sum(m) without axis=0: one total for the whole matrix, broadcast to
\* every column.
ColSumsTotal(m, ncols) ==
  LET total == Sum(Vec([j \in 1..ncols |-> Sum(Col(m, j))]))
  IN  Vec([j \in 1..ncols |-> total])

\* np.sum(m, axis=0) of a matrix with ncols columns.
ColSums(m, ncols) == Vec([j \in 1..ncols |-> Sum(Col(m, j))])

\* np.linspace(start, stop, num): start + i*step, last point set to stop.
linspace(start, stop, num) ==
  IF num = 1 THEN <<start>>
  ELSE LET step == Div(Sub(stop, start), Int2F(num - 1))
       IN  Vec([i \in 1..num |->
                 IF i = num THEN stop ELSE Add(start, Mul(Int2F(i - 1), step))])

\* Position among the TRUE entries of cond of index i.
Rank(cond, i) == Cardinality({j \in 1..i : cond[j]})

\* np.piecewise(x, condlist, funclist) with non-callable entries: y starts
\* as zeros and each y[cond] = func is a boolean-mask assignment.  A scalar
\* func is broadcast; an array func must have as many values as the mask
\* has TRUE entries (or one value), else numpy raises ValueError.
RECURSIVE PiecewiseFrom(_, _, _, _)
PiecewiseFrom(y, condlist, funclist, k) ==
  IF k > Len(condlist) THEN Ok(y, Len(y), 0)
  ELSE LET cond == condlist[k]
           f == funclist[k]
           count == Cardinality({i \in DOMAIN cond : cond[i]})
       IN  IF ~f.isarray
           THEN PiecewiseFrom(Vec([i \in DOMAIN y |-> IF cond[i] THEN f.v ELSE y[i]]),
                              condlist, funclist, k + 1)
           ELSE IF Len(f.v) = count
           THEN PiecewiseFrom(Vec([i \in DOMAIN y |->
                                     IF cond[i] THEN f.v[Rank(cond, i)] ELSE y[i]]),
                              condlist, funclist, k + 1)
           ELSE IF Len(f.v) = 1
           THEN PiecewiseFrom(Vec([i \in DOMAIN y |-> IF cond[i] THEN f.v[1] ELSE y[i]]),
                              condlist, funclist, k + 1)
           ELSE Raise(AssignError, Len(y), 0)

piecewise(x, condlist, funclist) ==
  PiecewiseFrom(Vec([i \in DOMAIN x |-> Zero]), condlist, funclist, 1)

Scalar(v) == [isarray |-> FALSE, v |-> v]
Array(v) == [isarray |-> TRUE, v |-> Vec(v)]

\* --------------------------------------------------------------- priors
rlim == 30
L == 1

LtZero(d) == Vec([i \in DOMAIN d |-> Less(d[i], Zero)])
GeZero(d) == Vec([i \in DOMAIN d |-> ~Less(d[i], Zero)])
InLim(d) == Vec([i \in DOMAIN d |-> ~Less(d[i], Zero) /\ ~Less(Int2F(rlim), d[i])])
GtLim(d) == Vec([i \in DOMAIN d |-> Less(Int2F(rlim), d[i])])

uniform_distance_prior(d) ==
  piecewise(d, <<LtZero(d), InLim(d), GtLim(d)>>,
            <<Scalar(Zero), Scalar(Fin(1, rlim)), Scalar(Zero)>>)

uniform_density_prior(d) ==
  piecewise(d, <<LtZero(d), InLim(d), GtLim(d)>>,
            <<Scalar(Zero),
              Array([i \in DOMAIN d |-> Mul(Fin(1, rlim * rlim * rlim), Sq(d[i]))]),
              Scalar(Zero)>>)

exp_prior(d) ==
  piecewise(d, <<LtZero(d), GeZero(d)>>,
            <<Scalar(Zero),
              Array([i \in DOMAIN d |->
                       Mul(Mul(Fin(1, 2 * L * L * L), Sq(d[i])),
                           Exp(Div(Neg(d[i]), Int2F(L))))])>>)

\* ----------------------------------------------------------- likelihood
\* 1/np.sqrt(2*np.pi*sigma_pi**2.)
NormConst(sigma) == Recip(Sqrt(Mul(TwoPi, Sq(sigma))))

\* np.exp(-1/(2*sigma_pi**2.) * (pi - 1./d)**2.) with numpy division.
ExpTerm(pi, d, sigma) ==
  Exp(Mul(Div(Int2F(-1), Mul(Int2F(2), Sq(sigma))), Sq(Sub(pi, Recip(d)))))

\* likelihood(pi, d, sigma_pi).  shape = "scalar": pi and sigma_pi are Python
\* floats, so -1/(2*sigma_pi**2.) is a Python division and raises
\* ZeroDivisionError at sigma_pi = 0; the result is a vector over d.
\* shape = "seq": pi (length M) and sigma_pi (length K) are arrays; the
\* (K,) factors broadcast against the (N, M) matrix along the last axis.
likelihood(pi, d, sigma_pi, shape) ==
  IF shape = "scalar"
  THEN IF sigma_pi.n = 0 /\ IsFin(sigma_pi) THEN Raise(ZeroDivError, 0, 0)
       ELSE Ok(Vec([i \in DOMAIN d |->
                      Mul(NormConst(sigma_pi), ExpTerm(pi, d[i], sigma_pi))]),
               0, Len(d))
  ELSE LET M == Len(pi)
           K == Len(sigma_pi)
           C == IF M > K THEN M ELSE K
       IN  IF M # K /\ M # 1 /\ K # 1 THEN Raise(BroadcastError, 0, 0)
           ELSE Ok(Vec([i \in DOMAIN d |-> Vec([j \in 1..C |->
                      LET p == pi[IF M = 1 THEN 1 ELSE j]
                          s == sigma_pi[IF K = 1 THEN 1 ELSE j]
                      IN  Mul(NormConst(s), ExpTerm(p, d[i], s))])]),
                   0, Len(d) * C)

\* ------------------------------------------------------------ posterior
PriorKinds == {"exponential", "uniform_density", "uniform_distance"}

\* The if/elif chain with the default prior as its else branch.
PriorSelectLenient(prior) ==
  IF prior = "uniform_density" THEN "uniform_density_prior"
  ELSE IF prior = "uniform_distance" THEN "uniform_distance_prior"
  ELSE "exp_prior"

\* The if/elif chain of posterior: the prior function, or "raise".
PriorSelect(prior) ==
  IF prior = "exponential" THEN "exp_prior"
  ELSE IF prior = "uniform_density" THEN "uniform_density_prior"
  ELSE IF prior = "uniform_distance" THEN "uniform_distance_prior"
  ELSE "raise"

PriorApply(fn, d) ==
  IF fn = "exp_prior" THEN exp_prior(d)
  ELSE IF fn = "uniform_density_prior" THEN uniform_density_prior(d)
  ELSE uniform_distance_prior(d)

\* Number of columns of the posterior of a "seq" call.
NCols(pi, sigma_pi) == IF Len(pi) > Len(sigma_pi) THEN Len(pi) ELSE Len(sigma_pi)

\* prior(distarray) * likelihood(pi, distarray, sigma_pi): p is evaluated
\* first and its exception wins; the (N,) prior multiplies each column.
PriorTimesLikelihood(p, l, shape, ncols) ==
  IF p.tag = "raise" THEN p
  ELSE IF l.tag = "raise" THEN Raise(l.exc, p.priorEvals, 0)
  ELSE IF shape = "scalar"
  THEN Ok(Vec([i \in DOMAIN p.val |-> Mul(p.val[i], l.val[i])]),
          p.priorEvals, l.likEvals)
  ELSE Ok(Vec([i \in DOMAIN p.val |->
                 Vec([j \in 1..ncols |-> Mul(p.val[i], l.val[i][j])])]),
          p.priorEvals, l.likEvals)

posterior(distarray, pi, sigma_pi, shape, prior) ==
  IF PriorSelect(prior) = "raise" THEN Raise(KeywordError, 0, 0)
  ELSE PriorTimesLikelihood(PriorApply(PriorSelect(prior), distarray),
                            likelihood(pi, distarray, sigma_pi, shape),
                            shape, NCols(pi, sigma_pi))

\* -------------------------------------------------------------- distpdf
\* Defaults of distpdf(pi, sigma_pi, min_dist=0., max_dist=30., resolution=10000)
\* and of posterior(..., prior="exponential").  The default range and
\* resolution are scaled down to DefaultMaxDist and DefaultResolution.
DefaultMinDist == 0
DefaultMaxDist == 3
DefaultResolution == 3
DefaultPrior == "exponential"

\* distpdf / np.sum(distpdf, axis=0)
Normalize(post, shape, ncols) ==
  IF shape = "scalar"
  THEN LET s == Sum(post) IN Vec([i \in DOMAIN post |-> Div(post[i], s)])
  ELSE LET s == ColSums(post, ncols)
       IN  Vec([i \in DOMAIN post |-> Vec([j \in 1..ncols |-> Div(post[i][j], s[j])])])

\* return distarray, distpdf / np.sum(distpdf, axis=0); an exception of
\* posterior propagates.
Normalized(distarray, post, shape, ncols) ==
  IF post.tag = "raise" THEN post
  ELSE Ok([dists |-> distarray, pdf |-> Normalize(post.val, shape, ncols)],
          post.priorEvals, post.likEvals)

distpdf(pi, sigma_pi, shape, min_dist, max_dist, resolution, prior) ==
  LET distarray == linspace(Int2F(min_dist), Int2F(max_dist), resolution)
  IN  Normalized(distarray, posterior(distarray, pi, sigma_pi, shape, prior), shape,
                 IF shape = "scalar" THEN 1 ELSE NCols(pi, sigma_pi))

\* np.average(a, axis=0, weights=w): ZeroDivisionError when the weights sum
\* to exactly zero, else sum(a*w)/sum(w).
average(a, w) ==
  LET scl == Sum(w)
  IN  IF IsFin(scl) /\ scl.n = 0 THEN Raise(ZeroDivError, 0, 0)
      ELSE Ok(Div(Sum(Vec([i \in DOMAIN a |-> Mul(a[i], w[i])])), scl), 0, 0)

\* Number of columns of a pdf matrix.
Width(pdf) == Len(pdf[1])

\* The mean of the outcome r of distpdf: np.average(dists, weights=pdf) for
\* a float, np.sum(pdf * dists / np.sum(pdf, axis=0), axis=0) for arrays.
MeanOf(r, shape) ==
  IF r.tag = "raise" THEN r
  ELSE IF shape = "scalar" THEN average(r.val.dists, r.val.pdf)
  ELSE LET s == ColSums(r.val.pdf, Width(r.val.pdf))
       IN  Ok(Vec([j \in 1..Width(r.val.pdf) |->
                     Sum(Vec([i \in DOMAIN r.val.dists |->
                                Div(Mul(r.val.pdf[i][j], r.val.dists[i]), s[j])]))]), 0, 0)

meandist(pi, sigma_pi, shape, min_dist, max_dist, resolution, prior) ==
  MeanOf(distpdf(pi, sigma_pi, shape, min_dist, max_dist, resolution, prior), shape)

\* The array branch without np.sqrt: the variance.
StdSeqVariance(dists, pdf, mean) ==
  LET s == ColSums(pdf, Width(pdf))
  IN  Vec([j \in 1..Width(pdf) |->
             Sum(Vec([i \in DOMAIN dists |->
                        Mul(pdf[i][j], Sq(Sub(dists[i], Div(mean[j], s[j]))))]))])

\* The array branch of diststd:
\* np.sqrt(np.sum(pdf * (dists - meandist / np.sum(pdf, axis=0))**2., axis=0))
StdSeq(dists, pdf, mean) ==
  LET s == ColSums(pdf, Width(pdf))
  IN  Vec([j \in 1..Width(pdf) |->
             Sqrt(Sum(Vec([i \in DOMAIN dists |->
                             Mul(pdf[i][j], Sq(Sub(dists[i], Div(mean[j], s[j]))))])))])

\* The scalar branch of diststd:
\* np.sqrt(np.average((dists - meandist)**2, axis=0, weights=pdf))
StdScalar(dists, pdf, mean) ==
  LET a == average(Vec([i \in DOMAIN dists |-> Sq(Sub(dists[i], mean))]), pdf)
  IN  IF a.tag = "raise" THEN a ELSE Ok(Sqrt(a.val), 0, 0)

\* diststd accepts **kwargs and passes none of them on: distpdf and meandist
\* are called with pi and sigma_pi only, so with their defaults.
\* The standard deviation from the outcomes r of distpdf and m of meandist.
StdOf(r, m, shape) ==
  IF r.tag = "raise" THEN r
  ELSE IF m.tag = "raise" THEN m
  ELSE IF shape = "scalar" THEN StdScalar(r.val.dists, r.val.pdf, m.val)
  ELSE Ok(StdSeq(r.val.dists, r.val.pdf, m.val), 0, 0)

diststd(pi, sigma_pi, shape, min_dist, max_dist, resolution, prior) ==
  StdOf(distpdf(pi, sigma_pi, shape,
                DefaultMinDist, DefaultMaxDist, DefaultResolution, DefaultPrior),
        meandist(pi, sigma_pi, shape,
                 DefaultMinDist, DefaultMaxDist, DefaultResolution, DefaultPrior),
        shape)

\* np.argmax of a vector: a left-to-right scan that keeps the first maximum;
\* a nan counts as the maximum, the first nan wins.
RECURSIVE ArgmaxFrom(_, _, _)
ArgmaxFrom(v, best, i) ==
  IF i > Len(v) THEN best
  ELSE IF IsNaN(v[best]) THEN best
  ELSE IF IsNaN(v[i]) \/ Less(v[best], v[i]) THEN ArgmaxFrom(v, i, i + 1)
  ELSE ArgmaxFrom(v, best, i + 1)

\* A scan that keeps the last maximum.
RECURSIVE ArgmaxLastFrom(_, _, _)
ArgmaxLastFrom(v, best, i) ==
  IF i > Len(v) THEN best
  ELSE IF IsNaN(v[best]) THEN best
  ELSE IF IsNaN(v[i]) \/ ~Less(v[i], v[best]) THEN ArgmaxLastFrom(v, i, i + 1)
  ELSE ArgmaxLastFrom(v, best, i + 1)

argmaxLast(v) == ArgmaxLastFrom(v, 1, 2)

argmax(v) == ArgmaxFrom(v, 1, 2)

\* The mode of the outcome r of distpdf: dists[np.argmax(pdf, axis=0)].
ModeOf(r, shape) ==
  IF r.tag = "raise" THEN r
  ELSE IF shape = "scalar" THEN Ok(r.val.dists[argmax(r.val.pdf)], 0, 0)
  ELSE Ok(Vec([j \in 1..Width(r.val.pdf) |->
                 r.val.dists[argmax(Col(r.val.pdf, j))]]), 0, 0)

modedist(pi, sigma_pi, shape, min_dist, max_dist, resolution, prior) ==
  ModeOf(distpdf(pi, sigma_pi, shape, min_dist, max_dist, resolution, prior), shape)

\* ------------------------------------------------------------- the calls
\* Arguments a caller draws.  A parallax of -3 is so discordant that its
\* likelihood underflows on every positive distance.  sigma_pi**2. is all the
\* code reads of a non-zero uncertainty, so arrays draw 0 and 1 only.
\* An argument record keeps pi and sigma_pi as sequences; shape = "scalar"
\* says the caller passes their single elements as Python floats.
Parallaxes == {Int2F(-3), Int2F(1)}
Uncertainties == {Int2F(-1), Int2F(0), Int2F(1)}
ArrayUncertainties == {Int2F(0), Int2F(1)}
SeqsOf(S) == UNION {[1..n -> S] : n \in 1..MaxLen}
GridRanges == {<<DefaultMinDist, DefaultMaxDist>>, <<-1, 1>>, <<-2, -1>>, <<1, 3>>}
Resolutions == 2..MaxRes
PriorArgs == PriorKinds \cup {"bogus"}

ScalarArgs ==
  [shape : {"scalar"}, pi : [1..1 -> Parallaxes], sigma_pi : [1..1 -> Uncertainties],
   range : GridRanges, resolution : Resolutions, prior : PriorArgs]

\* Arrays of any two lengths.
SeqArgs ==
  [shape : {"seq"}, pi : SeqsOf(Parallaxes), sigma_pi : SeqsOf(ArrayUncertainties),
   range : GridRanges, resolution : Resolutions, prior : PriorArgs]

\* Arrays of one length: one (pi, sigma_pi) pair per source.
PairedArgs == {a \in SeqArgs : Len(a.pi) = Len(a.sigma_pi)}

Args == ScalarArgs \cup SeqArgs
StatArgs == ScalarArgs \cup PairedArgs

\* The argument as passed: a float, or an array.
Passed(shape, x) == IF shape = "scalar" THEN x[1] ELSE x

\* The operation op on the arguments a.
Run(op, a) ==
  LET pi == Passed(a.shape, a.pi)
      sigma_pi == Passed(a.shape, a.sigma_pi)
      distarray == linspace(Int2F(a.range[1]), Int2F(a.range[2]), a.resolution)
  IN  IF op = "likelihood" THEN likelihood(pi, distarray, sigma_pi, a.shape)
      ELSE IF op = "posterior" THEN posterior(distarray, pi, sigma_pi, a.shape, a.prior)
      ELSE IF op = "distpdf"
      THEN distpdf(pi, sigma_pi, a.shape, a.range[1], a.range[2], a.resolution, a.prior)
      ELSE IF op = "meandist"
      THEN meandist(pi, sigma_pi, a.shape, a.range[1], a.range[2], a.resolution, a.prior)
      ELSE IF op = "diststd"
      THEN diststd(pi, sigma_pi, a.shape, a.range[1], a.range[2], a.resolution, a.prior)
      ELSE modedist(pi, sigma_pi, a.shape, a.range[1], a.range[2], a.resolution, a.prior)

\* The outcome r of op as the state keeps it: the returned distance grid
\* (distpdf only) and the returned numbers as a matrix with one column per
\* source.  The vector of a scalar call is the single column, the
\* statistics are one row, a scalar statistic is the 1-by-1 matrix.
Outcome(op, shape, r) ==
  IF r.tag = "raise"
  THEN [tag |-> "raise", exc |-> r.exc, grid |-> <<>>, values |-> <<>>,
        priorEvals |-> r.priorEvals, likEvals |-> r.likEvals]
  ELSE [tag |-> "ok", exc |-> "",
        grid |-> IF op = "distpdf" THEN r.val.dists ELSE <<>>,
        values |->
          IF op \in {"meandist", "diststd", "modedist"}
          THEN (IF shape = "scalar" THEN <<<<r.val>>>> ELSE <<r.val>>)
          ELSE LET m == IF op = "distpdf" THEN r.val.pdf ELSE r.val
               IN  IF shape = "scalar" THEN Vec([i \in DOMAIN m |-> <<m[i]>>]) ELSE m,
        priorEvals |-> r.priorEvals, likEvals |-> r.likEvals]

VARIABLES call, out
vars == <<call, out>>

NoCall == [op |-> "none"]
NoOut == [tag |-> "none"]

Init == call = NoCall /\ out = NoOut

Invoke(op, a) == [op |-> op, shape |-> a.shape, pi |-> a.pi, sigma_pi |-> a.sigma_pi,
                  range |-> a.range, resolution |-> a.resolution, prior |-> a.prior]

CallLikelihood ==
  /\ call = NoCall
  /\ \E a \in Args :
       /\ a.prior = DefaultPrior
       /\ call' = Invoke("likelihood", a)
       /\ out' = Outcome("likelihood", a.shape, Run("likelihood", a))

CallPosterior ==
  /\ call = NoCall
  /\ \E a \in Args :
       /\ call' = Invoke("posterior", a)
       /\ out' = Outcome("posterior", a.shape, Run("posterior", a))

CallDistpdf ==
  /\ call = NoCall
  /\ \E a \in Args :
       /\ call' = Invoke("distpdf", a)
       /\ out' = Outcome("distpdf", a.shape, Run("distpdf", a))

CallMeandist ==
  /\ call = NoCall
  /\ \E a \in StatArgs :
       /\ call' = Invoke("meandist", a)
       /\ out' = Outcome("meandist", a.shape, Run("meandist", a))

CallDiststd ==
  /\ call = NoCall
  /\ \E a \in StatArgs :
       /\ call' = Invoke("diststd", a)
       /\ out' = Outcome("diststd", a.shape, Run("diststd", a))

CallModedist ==
  /\ call = NoCall
  /\ \E a \in StatArgs :
       /\ call' = Invoke("modedist", a)
       /\ out' = Outcome("modedist", a.shape, Run("modedist", a))

\* The call returns (or its exception propagates); nothing is retained.
Return ==
  /\ call # NoCall
  /\ call' = NoCall
  /\ out' = NoOut

Next ==
  \/ CallLikelihood
  \/ CallPosterior
  \/ CallDistpdf
  \/ CallMeandist
  \/ CallDiststd
  \/ CallModedist
  \/ Return

Spec == Init /\ [][Next]_vars

\* =============================================================== claims
Called(ops) == call.op \in ops
IsSeq == call.shape = "seq"
Sources == 1..Len(call.pi)
Positive(x) == IsFin(x) /\ x.n > 0
IsZero(x) == IsFin(x) /\ x.n = 0
SameLengths == Len(call.pi) = Len(call.sigma_pi)
PositiveSigmas == \A j \in DOMAIN call.sigma_pi : Positive(call.sigma_pi[j])
DefaultConfig ==
  /\ call.range = <<DefaultMinDist, DefaultMaxDist>>
  /\ call.resolution = DefaultResolution
  /\ call.prior = DefaultPrior
\* A valid input: positive uncertainties, one uncertainty per parallax, a
\* known prior, min_dist < max_dist and resolution >= 2.
ValidInput ==
  /\ PositiveSigmas
  /\ SameLengths
  /\ call.prior \in PriorKinds
  /\ call.range[1] < call.range[2]
  /\ call.resolution >= 2

\* The call of the state with other arguments.
With(pi, sigma_pi, shape) == [call EXCEPT !.pi = pi, !.sigma_pi = sigma_pi, !.shape = shape]
OutcomeOf(op, a) == Outcome(op, a.shape, Run(op, a))

\* ---------------------------------------------------------------- C1
\* C1: posterior and distpdf called with a prior selector outside
\* "exponential", "uniform_density", "uniform_distance" raise the
\* ValueError "Prior keyword does not exist", return nothing, and have
\* evaluated neither the prior nor the likelihood on any grid point.
C1_UnknownPriorFailsFast ==
  (Called({"posterior", "distpdf"}) /\ call.prior \notin PriorKinds) =>
     /\ out.tag = "raise"
     /\ out.exc = KeywordError
     /\ out.grid = <<>>
     /\ out.values = <<>>
     /\ out.priorEvals = 0
     /\ out.likEvals = 0

C1_Witness ==
  /\ Called({"distpdf"})
  /\ call.prior = "bogus"
  /\ IsSeq
  /\ PositiveSigmas
  /\ SameLengths
  /\ out.tag = "raise"
  /\ out.exc = KeywordError

\* ---------------------------------------------------------------- C2
\* C2: for every valid input, every value of the posterior distpdf returns
\* is >= 0 and the values of each source sum to 1 along the distance axis.
C2_PosteriorNormalised ==
  (Called({"distpdf"}) /\ ValidInput /\ out.tag = "ok") =>
     \A j \in 1..Width(out.values) :
        /\ \A i \in DOMAIN out.values : IsFin(out.values[i][j]) /\ out.values[i][j].n >= 0
        /\ Sum(Col(out.values, j)) = One

\* ---------------------------------------------------------------- C3
\* The standard deviation the configuration a defines: the square root of
\* the posterior-weighted average of (grid - mean)^2, where grid, posterior
\* and mean are those of distpdf and meandist under that configuration.
StdUnder(a) ==
  LET r == Run("distpdf", a)
      m == Run("meandist", a)
  IN  IF r.tag = "raise" THEN r
      ELSE IF m.tag = "raise" THEN m
      ELSE IF a.shape = "scalar"
      THEN Ok(Sqrt(Sum(Vec([i \in DOMAIN r.val.dists |->
                              Mul(r.val.pdf[i], Sq(Sub(r.val.dists[i], m.val)))]))), 0, 0)
      ELSE Ok(Vec([j \in 1..Width(r.val.pdf) |->
                     Sqrt(Sum(Vec([i \in DOMAIN r.val.dists |->
                                     Mul(r.val.pdf[i][j],
                                         Sq(Sub(r.val.dists[i], m.val[j])))])))]), 0, 0)

\* C3: diststd called for sources (sigma_pi > 0) with a configuration
\* (min_dist, max_dist, resolution, prior) returns the standard deviation of
\* the posterior distpdf and meandist produce for that configuration, or
\* raises as they do.
C3_DiststdUsesConfig ==
  (Called({"diststd"}) /\ PositiveSigmas) =>
     LET want == Outcome("diststd", call.shape, StdUnder(call))
     IN  /\ out.tag = want.tag
         /\ out.exc = want.exc
         /\ out.values = want.values

\* ---------------------------------------------------------------- C4
\* C4: for a source (sigma_pi > 0), distpdf, meandist, diststd and modedist
\* called with the scalar pair return what they return for the length-1
\* arrays wrapping the same two values: the same grid, numbers and error.
C4_ShapePolymorphic ==
  (Called({"distpdf", "meandist", "diststd", "modedist"})
     /\ ~IsSeq /\ Positive(call.sigma_pi[1])) =>
     out = OutcomeOf(call.op, With(call.pi, call.sigma_pi, "seq"))

C4_Witness ==
  /\ Called({"diststd"})
  /\ ~IsSeq
  /\ Positive(call.sigma_pi[1])
  /\ out.tag = "ok"
  /\ Positive(out.values[1][1])

\* ---------------------------------------------------------------- C5
\* Position i holds the maximum of col in the order of np.argmax, where a
\* nan is larger than every number.
IsMaxAt(col, i) ==
  IF \E k \in DOMAIN col : IsNaN(col[k]) THEN IsNaN(col[i])
  ELSE \A k \in DOMAIN col : ~Less(col[i], col[k])

FirstMax(col) ==
  CHOOSE i \in DOMAIN col : IsMaxAt(col, i) /\ \A k \in 1..(i - 1) : ~IsMaxAt(col, k)

\* C5: for each source, modedist returns an element of the grid distpdf
\* builds: the grid value at the lowest index at which the posterior of
\* that source is maximal.
C5_ModeIsFirstMaximum ==
  (Called({"modedist"}) /\ out.tag = "ok") =>
     LET r == OutcomeOf("distpdf", call)
     IN  /\ r.tag = "ok"
         /\ Len(out.values[1]) = Width(r.values)
         /\ \A j \in 1..Width(r.values) :
              /\ \E i \in DOMAIN r.grid : out.values[1][j] = r.grid[i]
              /\ out.values[1][j] = r.grid[FirstMax(Col(r.values, j))]

\* Two grid points share the maximal posterior and the lower one is returned.
C5_Witness ==
  /\ Called({"modedist"})
  /\ ValidInput
  /\ out.tag = "ok"
  /\ LET r == OutcomeOf("distpdf", call)
     IN  \E j \in 1..Width(r.values) : \E i1, i2 \in DOMAIN r.grid :
            /\ i1 < i2
            /\ ~IsNaN(r.values[i1][j])
            /\ IsMaxAt(Col(r.values, j), i1)
            /\ IsMaxAt(Col(r.values, j), i2)
            /\ out.values[1][j] = r.grid[i1]

\* ---------------------------------------------------------------- C6
\* The unnormalised posterior of source j sums to zero over the grid.
ZeroSum(j) ==
  LET p == OutcomeOf("posterior", call)
  IN  p.tag = "ok" /\ IsZero(Sum(Col(p.values, j)))

\* C6: when the unnormalised posterior of a source of a valid input sums to
\* zero, distpdf, meandist, diststd and modedist raise or return nan for
\* that source, never a number.  (diststd is taken under the default
\* configuration, the one it evaluates.)
C6_DegeneracySurfaced ==
  (Called({"distpdf", "meandist", "diststd", "modedist"}) /\ ValidInput
     /\ (call.op = "diststd" => DefaultConfig)) =>
     \A j \in Sources :
        ZeroSum(j) =>
           \/ out.tag = "raise"
           \/ \A i \in DOMAIN out.values : IsNaN(out.values[i][j])

\* ---------------------------------------------------------------- C7
\* C7: likelihood, posterior and distpdf called with a pi array and a
\* (positive) sigma_pi array of different lengths raise and return nothing.
C7_LengthMismatchRaises ==
  (Called({"likelihood", "posterior", "distpdf"}) /\ IsSeq /\ ~SameLengths
     /\ PositiveSigmas) =>
     /\ out.tag = "raise"
     /\ out.values = <<>>

\* ---------------------------------------------------------------- C8
\* C8: every operation raises when sigma_pi, or an element of it, is zero
\* or negative.
C8_NonPositiveSigmaRaises ==
  (call # NoCall /\ \E j \in DOMAIN call.sigma_pi : ~Positive(call.sigma_pi[j])) =>
     out.tag = "raise"

\* ---------------------------------------------------------------- C9
\* C9: the grid on which distpdf has evaluated the likelihood, for a valid
\* input with min_dist <= 0 <= max_dist, contains no distance equal to 0.
C9_GridExcludesZero ==
  (Called({"distpdf"}) /\ ValidInput /\ out.likEvals > 0
     /\ call.range[1] <= 0 /\ 0 <= call.range[2]) =>
     \A i \in DOMAIN out.grid : ~IsZero(out.grid[i])

\* --------------------------------------------------------------- C10
\* C10: for arrays pi and sigma_pi of one length M and a grid of N points,
\* posterior and distpdf return an N-by-M matrix (or raise as the
\* single-source call does); column j is the column of the single-source
\* call with (pi[j], sigma_pi[j]), passed as length-1 arrays or, for a
\* non-zero sigma_pi[j], as scalars; an entry of posterior is the prior at
\* the grid point times the likelihood of source j there.
C10_ColumnsIndependent ==
  (Called({"posterior", "distpdf"}) /\ IsSeq /\ SameLengths) =>
     \A j \in Sources :
        LET one == OutcomeOf(call.op, With(<<call.pi[j]>>, <<call.sigma_pi[j]>>, "seq"))
            sc == OutcomeOf(call.op, With(<<call.pi[j]>>, <<call.sigma_pi[j]>>, "scalar"))
            d == linspace(Int2F(call.range[1]), Int2F(call.range[2]), call.resolution)
            prior == PriorApply(PriorSelect(call.prior), d)
        IN  /\ out.tag = one.tag
            /\ out.exc = one.exc
            /\ out.grid = one.grid
            /\ out.tag = "ok" =>
                 /\ Len(out.values) = call.resolution
                 /\ \A i \in DOMAIN out.values : Len(out.values[i]) = Len(call.pi)
                 /\ Col(out.values, j) = Col(one.values, 1)
                 /\ ~IsZero(call.sigma_pi[j]) =>
                       sc.tag = "ok" /\ Col(out.values, j) = Col(sc.values, 1)
                 /\ call.op = "posterior" =>
                       \A i \in DOMAIN out.values :
                          out.values[i][j] =
                             Mul(prior.val[i],
                                 Mul(NormConst(call.sigma_pi[j]),
                                     ExpTerm(call.pi[j], d[i], call.sigma_pi[j])))

\* Two sources in one distpdf call, the first degenerate (all nan), the
\* second with a positive posterior value.
C10_Witness ==
  /\ Called({"distpdf"})
  /\ IsSeq
  /\ PositiveSigmas
  /\ Len(call.pi) = 2
  /\ Len(call.sigma_pi) = 2
  /\ out.tag = "ok"
  /\ \A i \in DOMAIN out.values : IsNaN(out.values[i][1])
  /\ \E i \in DOMAIN out.values : Positive(out.values[i][2])
====
